---- MODULE Spec2Model ----
(***************************************************************************)
(* Message-intake pipeline and Lead Store of whatsapp_lead_system.         *)
(*                                                                         *)
(* The Lead Store is the pair of SQLite tables leads / messages            *)
(* (utils/database.js) reached through models/Lead (kept in                *)
(* utils/logger.js lines 108-517) and services/leadService.js.  Every      *)
(* store call is synchronous (better-sqlite3), so a store call, and every  *)
(* run of handler code between two awaits, is one atomic step.  Handlers   *)
(* of different inbound events interleave at their awaits.                 *)
(***************************************************************************)
EXTENDS Integers, Sequences, FiniteSets, TLC

(* ------------------------------ bounds -------------------------------- *)
\* Inbound events delivered to handleMessage in one behaviour.
MaxEvents == 2
\* Calls of the exported store / classifier API and HTTP requests in one
\* behaviour of the store-level specification.
MaxCalls == 3
\* Channel calls (send, read acknowledgement) that fail within one handler,
\* and SQLite errors within one behaviour.
MaxFailures == 1
\* Seconds the clock advances in one behaviour of the store-level specification.
MaxClock == 1

\* Closes of the WhatsApp connection.
MaxCloses == 3
\* Characters of a raw contact address before its run of filler digits.
MaxPrefix == 3
\* Filler digits of a raw contact address.
MaxRun == 10
\* Segments of the path of an HTTP request.
MaxSegments == 3

Events == 1..MaxEvents

(* --------------------------- input domains ---------------------------- *)
\* JavaScript undefined / null, kept apart from the empty string.
Undefined == "<undefined>"
\* The JSON value true, as JSON.parse can put it in a field of the answer.
JsonTrue == "<true>"
\* A member every object literal inherits from Object.prototype (a function).
InheritedMember == "<Object.prototype member>"
Truthy(v) == v # Undefined /\ v # ""

Phones == {"5511", "5522"}
ContactJid(p) == [user |-> p, server |-> "s.whatsapp.net"]
StatusBroadcast == [user |-> "status", server |-> "broadcast"]
Jids == {ContactJid(p) : p \in Phones} \cup {StatusBroadcast}

\* message.message of a Baileys event: the four places text can live in.
Body(conv, ext, img, vid) ==
  [conversation |-> conv, extendedText |-> ext,
   imageCaption |-> img, videoCaption |-> vid]
Bodies ==
  { Body("A", Undefined, Undefined, Undefined),
    Body(Undefined, "B", Undefined, Undefined),
    Body(Undefined, Undefined, "A", Undefined),
    Body(Undefined, Undefined, Undefined, "B"),
    Body("", Undefined, Undefined, Undefined),
    Body(Undefined, Undefined, Undefined, Undefined) }

PushNames == {Undefined}

\* A message of a messages.upsert event; message.key.id is the id the
\* channel gave it.
InboundMessages(id) ==
  { [key |-> [fromMe |-> f, remoteJid |-> j, id |-> id],
     pushName |-> n, message |-> b] :
      f \in BOOLEAN, j \in Jids, n \in PushNames, b \in Bodies }

NoMessage ==
  [key |-> [fromMe |-> FALSE, remoteJid |-> [user |-> "", server |-> ""],
            id |-> 0],
   pushName |-> Undefined,
   message |-> Body(Undefined, Undefined, Undefined, Undefined)]

(* ------------------------------ Lead Store ---------------------------- *)
ValidStatuses == {"novo", "em_atendimento", "finalizado"}

\* A row as INSERT INTO leads (phoneNumber, name) leaves it: column defaults.
NewLeadRow(id, phoneNumber, name) ==
  [id |-> id, phoneNumber |-> phoneNumber, name |-> name,
   intent |-> "outro", sentiment |-> "neutro", priority |-> "média",
   status |-> "novo"]

\* SELECT * FROM leads WHERE phoneNumber = ?  (all matching rows, in id order)
LeadRows(db, phoneNumber) ==
  SelectSeq(db.leads, LAMBDA r : r.phoneNumber = phoneNumber)

\* SELECT * FROM messages WHERE phoneNumber = ?
MessageRows(db, phoneNumber) ==
  SelectSeq(db.messages, LAMBDA r : r.phoneNumber = phoneNumber)

\* .get(): the first row or nothing, as a sequence of length 0 or 1.
Get(rows) == IF rows = <<>> THEN <<>> ELSE <<Head(rows)>>

\* Result of a call: it returned value, or it threw; db is the store after it.
Returned(db, value) == [threw |-> FALSE, db |-> db, value |-> value]
Threw(db) == [threw |-> TRUE, db |-> db, value |-> <<>>]

\* better-sqlite3 binds numbers, strings, bigints, buffers and null; run()
\* throws a TypeError for a boolean, a function or an object.
Bindable(v) == v \notin {JsonTrue, InheritedMember}

\* The statement the connection runs next raises an SQLite error (the disk is
\* full, the file is locked, an I/O error): every store function logs it and
\* rethrows it.
SqliteError(db) == Threw([db EXCEPT !.failNext = FALSE])

Lead_findOrCreate_NoLookup(db, phoneNumber, name) ==
  LET row == NewLeadRow(Len(db.leads) + 1, phoneNumber, name)
  IN  Returned([db EXCEPT !.leads = Append(@, row)], <<row>>)

Lead_findOrCreate(db, phoneNumber, name) ==
  LET existing == Get(LeadRows(db, phoneNumber))
      row == NewLeadRow(Len(db.leads) + 1, phoneNumber, name)
  IN  IF db.failNext THEN SqliteError(db)
      ELSE IF existing # <<>>
      THEN Returned(db, existing)
      ELSE Returned([db EXCEPT !.leads = Append(@, row)], <<row>>)

Lead_findByPhone(db, phoneNumber) == Get(LeadRows(db, phoneNumber))

Lead_countMessages(db, phoneNumber) == Len(MessageRows(db, phoneNumber))

\* A row as INSERT INTO messages (phoneNumber, text, sender) leaves it:
\* timestamp defaults to CURRENT_TIMESTAMP, the clock read in whole seconds.
NewMessageRow(db, phoneNumber, text, sender) ==
  [id |-> Len(db.messages) + 1, phoneNumber |-> phoneNumber,
   text |-> text, sender |-> sender, timestamp |-> db.now]

Lead_addMessage_NoForeignKey(db, phoneNumber, text, sender) ==
  LET row == NewMessageRow(db, phoneNumber, text, sender)
  IN  Returned([db EXCEPT !.messages = Append(@, row)], <<row>>)

Lead_addMessage_Prepend(db, phoneNumber, text, sender) ==
  LET row == NewMessageRow(db, phoneNumber, text, sender)
  IN  IF LeadRows(db, phoneNumber) = <<>>
      THEN Threw(db)
      ELSE Returned([db EXCEPT !.messages = <<row>> \o @], <<row>>)

\* The INSERT is refused when a value cannot be bound and when no leads row
\* has the phoneNumber (FOREIGN KEY of messages, enforced by better-sqlite3's
\* bundled SQLite by default); the UPDATE of lastInteraction / updatedAt
\* changes no modelled column.
Lead_addMessage(db, phoneNumber, text, sender) ==
  LET row == NewMessageRow(db, phoneNumber, text, sender)
  IN  IF db.failNext THEN SqliteError(db)
      ELSE IF ~Bindable(text) THEN Threw(db)
      ELSE IF LeadRows(db, phoneNumber) = <<>>
      THEN Threw(db)
      ELSE Returned([db EXCEPT !.messages = Append(@, row)], <<row>>)

\* ORDER BY timestamp ASC: rows with equal timestamps come in an order the
\* query does not fix (it depends on the plan SQLite picks).
SortedByTimestamp(rows) ==
  \A i \in 1..(Len(rows) - 1) : rows[i].timestamp <= rows[i + 1].timestamp

OrderByTimestamp(rows) ==
  { s \in { [i \in 1..Len(rows) |-> rows[f[i]]] :
               f \in Permutations(1..Len(rows)) } : SortedByTimestamp(s) }

Lead_findByPhoneWithMessages_Unordered(db, phoneNumber) ==
  IF Lead_findByPhone(db, phoneNumber) = <<>>
  THEN { [lead |-> <<>>, messages |-> <<>>] }
  ELSE { [lead |-> Lead_findByPhone(db, phoneNumber), messages |-> s] :
           s \in { [i \in 1..Len(MessageRows(db, phoneNumber)) |->
                      MessageRows(db, phoneNumber)[f[i]]] :
                    f \in Permutations(1..Len(MessageRows(db, phoneNumber))) } }

\* Every result the call can return: null (no lead) when there is no Lead,
\* else the Lead with its messages ordered by timestamp.
Lead_findByPhoneWithMessages(db, phoneNumber) ==
  IF Lead_findByPhone(db, phoneNumber) = <<>>
  THEN { [lead |-> <<>>, messages |-> <<>>] }
  ELSE { [lead |-> Lead_findByPhone(db, phoneNumber), messages |-> s] :
           s \in OrderByTimestamp(MessageRows(db, phoneNumber)) }

Lead_updateClassification_IntentOnly(db, phoneNumber, classification) ==
  LET upd == [i \in 1..Len(db.leads) |->
                IF db.leads[i].phoneNumber = phoneNumber
                THEN [db.leads[i] EXCEPT !.intent = classification.intent]
                ELSE db.leads[i]]
      db2 == [db EXCEPT !.leads = upd]
  IN  IF db.failNext THEN SqliteError(db)
      ELSE IF \/ ~Bindable(classification.intent)
              \/ ~Bindable(classification.sentiment)
              \/ ~Bindable(classification.priority)
      THEN Threw(db)
      ELSE Returned(db2, Lead_findByPhone(db2, phoneNumber))

Lead_updateClassification(db, phoneNumber, classification) ==
  LET upd == [i \in 1..Len(db.leads) |->
                IF db.leads[i].phoneNumber = phoneNumber
                THEN [db.leads[i] EXCEPT !.intent = classification.intent,
                                         !.sentiment = classification.sentiment,
                                         !.priority = classification.priority]
                ELSE db.leads[i]]
      db2 == [db EXCEPT !.leads = upd]
  IN  IF db.failNext THEN SqliteError(db)
      ELSE IF \/ ~Bindable(classification.intent)
              \/ ~Bindable(classification.sentiment)
              \/ ~Bindable(classification.priority)
      THEN Threw(db)
      ELSE Returned(db2, Lead_findByPhone(db2, phoneNumber))

Lead_updateStatus(db, phoneNumber, status) ==
  LET upd == [i \in 1..Len(db.leads) |->
                IF db.leads[i].phoneNumber = phoneNumber
                THEN [db.leads[i] EXCEPT !.status = status]
                ELSE db.leads[i]]
      db2 == [db EXCEPT !.leads = upd]
  IN  IF db.failNext THEN SqliteError(db)
      ELSE Returned(db2, Lead_findByPhone(db2, phoneNumber))

Lead_getStats(db) == [total |-> Len(db.leads)]

(* ----------------------------- leadService ---------------------------- *)
leadService_createOrGetLead(db, phoneNumber, name) ==
  Lead_findOrCreate(db, phoneNumber, name)

leadService_addMessage(db, phoneNumber, text, sender) ==
  Lead_addMessage(db, phoneNumber, text, sender)

leadService_updateClassification(db, phoneNumber, classification) ==
  Lead_updateClassification(db, phoneNumber, classification)

\* The UPDATE has run before the missing Lead is noticed.
leadService_updateStatus(db, phoneNumber, status) ==
  LET r == Lead_updateStatus(db, phoneNumber, status)
  IN  IF r.value = <<>> THEN Threw(r.db) ELSE r

leadService_getStats(db) == Lead_getStats(db)

(* --------------------------- whatsappService -------------------------- *)
\* A string whose characters matter is a sequence of one-character strings.
Digits == {"0", "1", "2", "3", "4", "5", "6", "7", "8", "9"}
IsDigit(ch) == ch \in Digits

formatPhoneNumber_NoPrefixCheck(number) ==
  LET cleaned == SelectSeq(number, IsDigit)
  IN  IF Len(cleaned) <= 11
      THEN <<"5", "5">> \o cleaned
      ELSE cleaned

formatPhoneNumber_Under11(number) ==
  LET cleaned == SelectSeq(number, IsDigit)
      startsWith55 == Len(cleaned) >= 2 /\ cleaned[1] = "5" /\ cleaned[2] = "5"
  IN  IF ~startsWith55 /\ Len(cleaned) < 11
      THEN <<"5", "5">> \o cleaned
      ELSE cleaned

\* number.replace(/\D/g, ''), then '55' in front when the digits do not
\* start with '55' and are at most 11
formatPhoneNumber(number) ==
  LET cleaned == SelectSeq(number, IsDigit)
      startsWith55 == Len(cleaned) >= 2 /\ cleaned[1] = "5" /\ cleaned[2] = "5"
  IN  IF ~startsWith55 /\ Len(cleaned) <= 11
      THEN <<"5", "5">> \o cleaned
      ELSE cleaned

\* Raw contact addresses: up to MaxPrefix characters, then up to MaxRun 9s.
Alphabet == {"5", "1", "-"}
Run(n) == [i \in 1..n |-> "9"]
PhoneInputs ==
  { pre \o Run(n) :
      pre \in UNION {[1..k -> Alphabet] : k \in 0..MaxPrefix}, n \in 0..MaxRun }

extractPhoneFromJID(jid) == jid.user

extractSenderInfo(message) ==
  [phoneNumber |-> extractPhoneFromJID(message.key.remoteJid),
   name |-> IF Truthy(message.pushName) THEN message.pushName
            ELSE "Não informado",
   jid |-> message.key.remoteJid]

\* The text of the message, or Undefined (null) when there is none.
extractMessageText(message) ==
  IF Truthy(message.message.conversation) THEN message.message.conversation
  ELSE IF Truthy(message.message.extendedText) THEN message.message.extendedText
  ELSE IF Truthy(message.message.imageCaption) THEN message.message.imageCaption
  ELSE IF Truthy(message.message.videoCaption) THEN message.message.videoCaption
  ELSE Undefined

isMessageFromMe_Never(message) == FALSE

isMessageFromMe(message) == message.key.fromMe = TRUE

(* ------------------------------ aiService ----------------------------- *)
Classification(i, s, p) == [intent |-> i, sentiment |-> s, priority |-> p]

FallbackClassification == Classification("outro", "neutro", "média")
NoClassification == Classification(Undefined, Undefined, Undefined)

\* What the call to the classification backend can come back with: a
\* transport error, a timeout (axios timeout 10000 ms), text that JSON.parse
\* rejects, the JSON value null, or a JSON object whose three fields are each
\* present, empty or missing; a present field is any JSON value, a string of
\* the prompt's vocabulary or not.
BackendFailureKinds == {"networkError", "timeout", "unparsable"}
Outcome(k, c) == [kind |-> k, classification |-> c]
BackendOutcomes ==
  { Outcome(k, NoClassification) : k \in BackendFailureKinds \cup {"null"} }
  \cup
  { Outcome("object", c) :
      c \in { Classification("orçamento", "positivo", "alta"),
              Classification("suporte", "negativo", "alta"),
              Classification("spam", "neutro", "baixa"),
              Classification(Undefined, "neutro", "média"),
              Classification("dúvida", "", "média"),
              Classification("dúvida", "neutro", Undefined),
              Classification("constructor", "neutro", "média"),
              Classification("dúvida", "neutro", JsonTrue) } }

\* classifyWithOpenAI / classifyWithGemini: both post the prompt, parse the
\* answer and rethrow whatever went wrong.
classifyWithProvider(message, outcome) ==
  IF outcome.kind \in BackendFailureKinds
  THEN [threw |-> TRUE, isNull |-> FALSE, value |-> NoClassification]
  ELSE [threw |-> FALSE, isNull |-> outcome.kind = "null",
        value |-> outcome.classification]

\* The body of classifyMessage's try block.
classifyMessage_try(message, outcome) ==
  IF ~Truthy(message)
  THEN [threw |-> TRUE, value |-> NoClassification]
  ELSE LET r == classifyWithProvider(message, outcome)
       IN  IF r.threw \/ r.isNull
           THEN [threw |-> TRUE, value |-> NoClassification]
           ELSE IF \/ ~Truthy(r.value.intent)
                   \/ ~Truthy(r.value.sentiment)
                   \/ ~Truthy(r.value.priority)
                THEN [threw |-> TRUE, value |-> NoClassification]
                ELSE [threw |-> FALSE, value |-> r.value]

classifyMessage_NoValidation(message, outcome) ==
  LET r == classifyWithProvider(message, outcome)
  IN  IF r.threw \/ r.isNull
      THEN [threw |-> FALSE, value |-> FallbackClassification]
      ELSE [threw |-> FALSE, value |-> r.value]

classifyMessage_Rethrow(message, outcome) ==
  classifyMessage_try(message, outcome)

classifyMessage(message, outcome) ==
  LET r == classifyMessage_try(message, outcome)
  IN  IF r.threw
      THEN [threw |-> FALSE, value |-> FallbackClassification]
      ELSE r

Intents == {"orçamento", "dúvida", "suporte", "outro"}
Sentiments == {"positivo", "neutro", "negativo"}
Priorities == {"baixa", "média", "alta"}

\* Names every object literal answers to besides its own keys.
ObjectPrototypeKeys ==
  {"constructor", "toString", "valueOf", "hasOwnProperty", "__proto__"}

\* responses[intent] || responses.outro: the key's own template, else what the
\* object inherits under that name (truthy, so it is returned), else outro.
TemplateOf(intent) ==
  IF intent \in Intents THEN intent
  ELSE IF intent \in ObjectPrototypeKeys THEN InheritedMember
  ELSE "outro"

\* The four texts of generateAutoResponse; none of them is a text of
\* sendClassificationResponse.
generateAutoResponse(classification) ==
  LET t == TemplateOf(classification.intent)
  IN  IF t = InheritedMember THEN InheritedMember
      ELSE "generateAutoResponse/" \o t \o
           (IF t = "suporte" /\ classification.priority = "alta"
            THEN "/URGENTE" ELSE "")

(* ------------------------------ welcomeFlow --------------------------- *)
WelcomeSteps_Swapped == <<"presentation", "greeting", "expectations">>

WelcomeSteps == <<"greeting", "presentation", "expectations">>

classificationResponseText(classification) ==
  LET t == TemplateOf(classification.intent)
  IN  IF t = InheritedMember THEN InheritedMember
      ELSE "sendClassificationResponse/" \o t \o
           (IF t \in {"orçamento", "suporte"} /\ classification.priority = "alta"
            THEN "/URGENTE" ELSE "")

TextOnlyNotice == "só consigo processar mensagens de texto"
ApologyText == "ocorreu um erro ao processar sua mensagem"
WelcomeFallbackText == "Obrigado por entrar em contato. Retornaremos em breve!"

(* ------------------------------ connect.js ---------------------------- *)
\* lastDisconnect?.error?.output?.statusCode of a close: none, or one of
\* the library's DisconnectReason values.
StatusCodes ==
  {Undefined, "loggedOut", "connectionLost", "connectionClosed",
   "connectionReplaced", "restartRequired"}

shouldReconnect(statusCode) == statusCode # "loggedOut"

\* setTimeout(..., 5000), in seconds
ReconnectDelay == 5
NoTimer == -1

\* Before startServer has called connectToWhatsApp: let sock = null.
NotExited == -1
NotStarted ==
  [process |-> "running", sock |-> "null", state |-> "none",
   statusCode |-> Undefined, timer |-> NoTimer, attempts |-> 0, closes |-> 0,
   shutdown |-> "none", exitCode |-> NotExited]

\* process.exit(code): the process ends, its timers and sockets go with it.
ProcessExit(c, code) ==
  [c EXCEPT !.process = "exited", !.timer = NoTimer, !.exitCode = code]

\* connect.isConnected(): return sock !== null
isConnected(c) == c.sock # "null"

\* connect.disconnect(): if (sock) { await sock.logout(); sock = null; },
\* a failure of logout is logged and sock stays.
disconnect(c, ok) ==
  IF isConnected(c) /\ ok THEN [c EXCEPT !.sock = "null"] ELSE c

\* server.gracefulShutdown(signal): the HTTP server, the WhatsApp connection
\* and the store are closed inside a try, and finally { process.exit(0) }.
gracefulShutdown(c, signal, ok) ==
  ProcessExit(disconnect([c EXCEPT !.shutdown = signal], ok), 0)

\* connectToWhatsApp: the awaited calls and makeWASocket succeed and sock is
\* the new socket, or one of them throws (sock is as before) and the
\* promise rejects.
connectToWhatsApp(c, ok) ==
  IF ok
  THEN [c EXCEPT !.sock = "socket", !.state = "connecting",
                 !.attempts = @ + 1, !.timer = NoTimer]
  ELSE [c EXCEPT !.attempts = @ + 1]

(* ------------------------------- state -------------------------------- *)
VARIABLES
  leads,      \* table leads, rows in id order
  messages,   \* table messages, rows in id order
  handlers,   \* per inbound event: where its handleMessage call stands
  lastCall,   \* the latest call of the exported API or HTTP request, and its result
  ncalls,     \* such calls made so far
  clock,      \* the wall clock in whole seconds, as CURRENT_TIMESTAMP reads it
  sqlite,     \* the connection: whether its next statement fails, failures so far
  connection  \* the WhatsApp socket, its reconnect timer and the process

vars == <<leads, messages, handlers, lastCall, ncalls, clock, sqlite, connection>>

DB == [leads |-> leads, messages |-> messages, now |-> clock,
       failNext |-> sqlite.failNext]

\* The tables and the connection are as the store call db left them.
Store(db) ==
  /\ leads' = db.leads
  /\ messages' = db.messages
  /\ sqlite' = [sqlite EXCEPT !.failNext = db.failNext]

\* One observable effect of a handler: a store call, a channel call, a
\* classifier call or a pause, with whether it succeeded.
Effect(op, arg, ok) == [op |-> op, arg |-> arg, ok |-> ok]

IdleHandler ==
  [pc |-> "idle", step |-> 0, key |-> NoMessage.key, phoneNumber |-> "",
   name |-> "", messageText |-> Undefined, isFirstMessage |-> FALSE,
   historyWasEmpty |-> FALSE, classification |-> NoClassification,
   backend |-> "none", trace |-> <<>>, prior |-> {}]

NoCall == [op |-> "none", phoneNumber |-> "", arg |-> "", threw |-> FALSE,
           code |-> 0, classification |-> NoClassification,
           outcome |-> Outcome("none", NoClassification),
           reply |-> "", history |-> <<>>, input |-> <<>>, output |-> <<>>]

Init ==
  /\ leads = <<>>
  /\ messages = <<>>
  /\ handlers = [e \in Events |-> IdleHandler]
  /\ lastCall = NoCall
  /\ ncalls = 0
  /\ clock = 0
  /\ sqlite = [failNext |-> FALSE, failures |-> 0]
  /\ connection = NotStarted

(* ---------------------------- handleMessage --------------------------- *)
\* lead.messages?.length === 0 || leadService.getStats().total === 1
\* (lead is the row findOrCreate returned)
isFirstMessage(lead, db) ==
  \/ "messages" \in DOMAIN lead /\ Len(lead.messages) = 0
  \/ leadService_getStats(db).total = 1

Log(h, op, arg, ok) == [h EXCEPT !.trace = Append(@, Effect(op, arg, ok))]

\* The outcomes a channel call of handler h can have: it succeeds, or (while
\* the handler has failures left within the bound) it fails.
ChannelOutcomes(h) ==
  IF Cardinality({i \in 1..Len(h.trace) :
                    ~h.trace[i].ok /\ h.trace[i].op \in {"send", "markAsRead"}})
       < MaxFailures
  THEN BOOLEAN ELSE {TRUE}

\* The catch block of handleMessage: one apology send is awaited next.
EnterCatch(h) == [h EXCEPT !.pc = "apology"]

\* classifyMessage is called: it runs up to the await of the backend call.
StartClassify(h) == [h EXCEPT !.pc = "classify"]

\* Lines 98-109: find or create the Lead, take isFirstMessage, append the
\* inbound message; then markAsRead is awaited.
Upsert(h, db) ==
  LET r1 == leadService_createOrGetLead(db, h.phoneNumber, h.name)
      first == isFirstMessage(Head(r1.value), r1.db)
      empty == Lead_countMessages(r1.db, h.phoneNumber) = 0
      h1 == [Log(h, "createOrGetLead", h.phoneNumber, ~r1.threw)
               EXCEPT !.isFirstMessage = first, !.historyWasEmpty = empty]
      r2 == leadService_addMessage(r1.db, h.phoneNumber, h.messageText, "lead")
      h2 == Log(h1, "addMessage", "lead", ~r2.threw)
  IN  IF r1.threw THEN [db |-> r1.db, h |-> EnterCatch(Log(h, "createOrGetLead", h.phoneNumber, FALSE))]
      ELSE IF r2.threw THEN [db |-> r2.db, h |-> EnterCatch(h2)]
      ELSE [db |-> r2.db, h |-> [h2 EXCEPT !.pc = "markRead"]]

Entry_NoTextCheck(h0, m, db) ==
  LET info == extractSenderInfo(m)
      h == [h0 EXCEPT !.key = m.key, !.phoneNumber = info.phoneNumber,
                      !.name = info.name,
                      !.messageText = extractMessageText(m)]
  IN  IF isMessageFromMe(m) \/ m.key.remoteJid = StatusBroadcast
      THEN [db |-> db, h |-> [h0 EXCEPT !.key = m.key, !.pc = "done"]]
      ELSE Upsert(h, db)

\* handleMessage from its entry to its first await (or its return): the two
\* filters return before anything is extracted from the message.
Entry(h0, m, db) ==
  LET info == extractSenderInfo(m)
      text == extractMessageText(m)
      h == [h0 EXCEPT !.key = m.key, !.phoneNumber = info.phoneNumber,
                      !.name = info.name,
                      !.messageText = text]
  IN  IF isMessageFromMe(m)
      THEN [db |-> db, h |-> [h0 EXCEPT !.key = m.key, !.pc = "done"]]
      ELSE IF m.key.remoteJid = StatusBroadcast
      THEN [db |-> db, h |-> [h0 EXCEPT !.key = m.key, !.pc = "done"]]
      ELSE IF ~Truthy(text)
      THEN [db |-> db, h |-> [h EXCEPT !.pc = "textOnly"]]
      ELSE Upsert(h, db)

\* The channel delivers a text message again (at-least-once delivery): the
\* same key, id included, and the same text as in an earlier event.
Redelivered(e) ==
  { [key |-> handlers[d].key, pushName |-> Undefined,
     message |-> Body(handlers[d].messageText, Undefined, Undefined, Undefined)] :
      d \in {d \in Events : d < e /\ Truthy(handlers[d].messageText)} }

\* An inbound event reaches handleMessage: a new message, whose id no
\* earlier message had, or an earlier one delivered again.
HandleMessage(e) ==
  /\ handlers[e].pc = "idle"
  /\ \A d \in Events : d < e => handlers[d].pc # "idle"
  /\ \E m \in InboundMessages(e) \cup Redelivered(e) :
       LET h0 == [handlers[e] EXCEPT
                    !.prior = {d \in Events : handlers[d].pc = "done"}]
           r == Entry(h0, m, DB)
       IN  /\ Store(r.db)
           /\ handlers' = [handlers EXCEPT ![e] = r.h]
  /\ UNCHANGED <<lastCall, ncalls, clock, connection>>

\* Lines 82-88: the 'text only' notice; a failed send throws into the catch.
SendTextOnly(e) ==
  /\ handlers[e].pc = "textOnly"
  /\ \E ok \in ChannelOutcomes(handlers[e]) :
       LET h == Log(handlers[e], "send", TextOnlyNotice, ok)
       IN  handlers' = [handlers EXCEPT ![e] =
             IF ok THEN [h EXCEPT !.pc = "done"] ELSE EnterCatch(h)]
  /\ UNCHANGED <<leads, messages, lastCall, ncalls, clock, sqlite, connection>>

MarkAsRead_Rethrow(e) ==
  /\ handlers[e].pc = "markRead"
  /\ \E ok \in ChannelOutcomes(handlers[e]) :
       LET h == Log(handlers[e], "markAsRead", "", ok)
       IN  handlers' = [handlers EXCEPT ![e] =
             IF ~ok THEN EnterCatch(h)
             ELSE IF h.isFirstMessage
             THEN [Log(h, "runWelcomeFlow", h.phoneNumber, TRUE)
                     EXCEPT !.pc = "welcomeSleep", !.step = 1]
             ELSE StartClassify(h)]
  /\ UNCHANGED <<leads, messages, lastCall, ncalls, clock, sqlite, connection>>

\* Line 116: markAsRead swallows its failure.  Then the welcome flow starts
\* (it runs up to its first sleep) or classification starts.
MarkAsRead(e) ==
  /\ handlers[e].pc = "markRead"
  /\ \E ok \in ChannelOutcomes(handlers[e]) :
       LET h == Log(handlers[e], "markAsRead", "", ok)
       IN  handlers' = [handlers EXCEPT ![e] =
             IF h.isFirstMessage
             THEN [Log(h, "runWelcomeFlow", h.phoneNumber, TRUE)
                     EXCEPT !.pc = "welcomeSleep", !.step = 1]
             ELSE StartClassify(h)]
  /\ UNCHANGED <<leads, messages, lastCall, ncalls, clock, sqlite, connection>>

(* ---------------------------- runWelcomeFlow -------------------------- *)
AfterWelcome_InProgress(h, db) ==
  LET r == leadService_updateStatus(db, h.phoneNumber, "em_atendimento")
      h1 == Log(h, "updateStatus", "novo", ~r.threw)
  IN  [db |-> r.db,
       h |-> IF r.threw THEN EnterCatch(h1) ELSE StartClassify(h1)]

\* Line 130 of handleMessage, reached when runWelcomeFlow has resolved:
\* the status is set to 'novo', then classification starts.
AfterWelcome(h, db) ==
  LET r == leadService_updateStatus(db, h.phoneNumber, "novo")
      h1 == Log(h, "updateStatus", "novo", ~r.threw)
  IN  [db |-> r.db,
       h |-> IF r.threw THEN EnterCatch(h1) ELSE StartClassify(h1)]

\* await sleep(DELAYS...) before each step
WelcomeSleep(e) ==
  /\ handlers[e].pc = "welcomeSleep"
  /\ handlers' = [handlers EXCEPT ![e] =
       [Log(@, "sleep", WelcomeSteps[@.step], TRUE) EXCEPT !.pc = "welcomeTyping"]]
  /\ UNCHANGED <<leads, messages, lastCall, ncalls, clock, sqlite, connection>>

\* await simulateTyping(sock, jid): it swallows its own failure, so the caller
\* sees one outcome
WelcomeTyping(e) ==
  /\ handlers[e].pc = "welcomeTyping"
  /\ handlers' = [handlers EXCEPT ![e] =
       [Log(@, "simulateTyping", WelcomeSteps[@.step], TRUE)
          EXCEPT !.pc = "welcomeSend"]]
  /\ UNCHANGED <<leads, messages, lastCall, ncalls, clock, sqlite, connection>>

\* await sendMessage(sock, jid, WELCOME_MESSAGES...): a failed send leaves
\* the try block for the fallback send; the third successful send ends the flow.
WelcomeSend(e) ==
  /\ handlers[e].pc = "welcomeSend"
  /\ \E ok \in ChannelOutcomes(handlers[e]) :
       LET h == Log(handlers[e], "send", WelcomeSteps[handlers[e].step], ok)
           r == AfterWelcome(h, DB)
       IN  IF ~ok
           THEN /\ handlers' = [handlers EXCEPT ![e] =
                                  [h EXCEPT !.pc = "welcomeFallback"]]
                /\ UNCHANGED <<leads, messages, sqlite>>
           ELSE IF h.step < Len(WelcomeSteps)
           THEN /\ handlers' = [handlers EXCEPT ![e] =
                       [h EXCEPT !.pc = "welcomeSleep", !.step = @ + 1]]
                /\ UNCHANGED <<leads, messages, sqlite>>
           ELSE /\ handlers' = [handlers EXCEPT ![e] = r.h]
                /\ Store(r.db)
  /\ UNCHANGED <<lastCall, ncalls, clock, connection>>

\* Lines 93-102 of welcomeFlow: one simple message, its failure swallowed.
WelcomeFallback(e) ==
  /\ handlers[e].pc = "welcomeFallback"
  /\ \E ok \in ChannelOutcomes(handlers[e]) :
       LET r == AfterWelcome(Log(handlers[e], "send", WelcomeFallbackText, ok), DB)
       IN  /\ handlers' = [handlers EXCEPT ![e] = r.h]
           /\ Store(r.db)
  /\ UNCHANGED <<lastCall, ncalls, clock, connection>>

Classified_RetryOnFailure(h, outcome, db) ==
  LET c == classifyMessage(h.messageText, outcome)
      backend == IF outcome.kind \in BackendFailureKinds
                 THEN "failed" ELSE "answered"
      h1 == [Log(h, "classifyMessage", backend, ~c.threw)
               EXCEPT !.backend = backend, !.classification = c.value]
      r == leadService_updateClassification(db, h.phoneNumber, c.value)
      h2 == Log(h1, "updateClassification", c.value.intent, ~r.threw)
  IN  IF outcome.kind \in BackendFailureKinds
      THEN [db |-> db,
            h |-> [h EXCEPT !.backend = IF @ = "none" THEN "retrying" ELSE "none"]]
      ELSE IF r.threw THEN [db |-> r.db, h |-> EnterCatch(h2)]
      ELSE [db |-> r.db, h |-> [h2 EXCEPT !.pc = "replyTyping"]]

(* ------------------- classification and automatic reply --------------- *)
\* Lines 143-156: the backend call settles, the classification is stored,
\* sendClassificationResponse runs up to its simulateTyping.
Classified(h, outcome, db) ==
  LET c == classifyMessage(h.messageText, outcome)
      backend == IF outcome.kind \in BackendFailureKinds
                 THEN "failed" ELSE "answered"
      h1 == [Log(h, "classifyMessage", backend, ~c.threw)
               EXCEPT !.backend = backend, !.classification = c.value]
      r == leadService_updateClassification(db, h.phoneNumber, c.value)
      h2 == Log(h1, "updateClassification", c.value.intent, ~r.threw)
  IN  IF c.threw THEN [db |-> db, h |-> EnterCatch(h1)]
      ELSE IF r.threw THEN [db |-> r.db, h |-> EnterCatch(h2)]
      ELSE [db |-> r.db, h |-> [h2 EXCEPT !.pc = "replyTyping"]]

Classify(e) ==
  /\ handlers[e].pc = "classify"
  /\ \E outcome \in BackendOutcomes :
       LET r == Classified(handlers[e], outcome, DB)
       IN  /\ handlers' = [handlers EXCEPT ![e] = r.h]
           /\ Store(r.db)
  /\ UNCHANGED <<lastCall, ncalls, clock, connection>>

ReplyTyping(e) ==
  /\ handlers[e].pc = "replyTyping"
  /\ handlers' = [handlers EXCEPT ![e] =
       [Log(@, "simulateTyping", "reply", TRUE) EXCEPT !.pc = "replySend"]]
  /\ UNCHANGED <<leads, messages, lastCall, ncalls, clock, sqlite, connection>>

\* Lines 159-160 of handleMessage, after sendClassificationResponse resolved.
RecordReply(h, db) ==
  LET autoResponse == generateAutoResponse(h.classification)
      r == leadService_addMessage(db, h.phoneNumber, autoResponse, "bot")
      h1 == Log(h, "addMessage", "bot", ~r.threw)
  IN  [db |-> r.db,
       h |-> IF r.threw THEN EnterCatch(h1) ELSE [h1 EXCEPT !.pc = "done"]]

ReplySend_RecordFirst(e) ==
  /\ handlers[e].pc = "replySend"
  /\ \E ok \in ChannelOutcomes(handlers[e]) :
       LET r == RecordReply(handlers[e], DB)
           h == Log(r.h, "send",
                    classificationResponseText(handlers[e].classification), ok)
       IN  /\ handlers' = [handlers EXCEPT ![e] = h]
           /\ Store(r.db)
  /\ UNCHANGED <<lastCall, ncalls, clock, connection>>

\* The reply send of sendClassificationResponse (its failure is swallowed
\* there), then the reply is recorded in the history.
ReplySend(e) ==
  /\ handlers[e].pc = "replySend"
  /\ \E ok \in ChannelOutcomes(handlers[e]) :
       LET h == Log(handlers[e], "send",
                    classificationResponseText(handlers[e].classification), ok)
           r == RecordReply(h, DB)
       IN  /\ handlers' = [handlers EXCEPT ![e] = r.h]
           /\ Store(r.db)
  /\ UNCHANGED <<lastCall, ncalls, clock, connection>>

SendApology_Retry(e) ==
  /\ handlers[e].pc = "apology"
  /\ \E ok \in ChannelOutcomes(handlers[e]) :
       handlers' = [handlers EXCEPT ![e] =
         [Log(@, "send", ApologyText, ok)
            EXCEPT !.pc = IF ok THEN "done" ELSE "apology"]]
  /\ UNCHANGED <<leads, messages, lastCall, ncalls, clock, sqlite, connection>>

\* Lines 173-188: the apology send, its failure swallowed.
SendApology(e) ==
  /\ handlers[e].pc = "apology"
  /\ \E ok \in ChannelOutcomes(handlers[e]) :
       handlers' = [handlers EXCEPT ![e] =
         [Log(@, "send", ApologyText, ok) EXCEPT !.pc = "done"]]
  /\ UNCHANGED <<leads, messages, lastCall, ncalls, clock, sqlite, connection>>

\* handleMessage resumes after an await.
Resume(e) ==
  \/ SendTextOnly(e)
  \/ MarkAsRead(e)
  \/ WelcomeSleep(e)
  \/ WelcomeTyping(e)
  \/ WelcomeSend(e)
  \/ WelcomeFallback(e)
  \/ Classify(e)
  \/ ReplyTyping(e)
  \/ ReplySend(e)
  \/ SendApology(e)

Handle(e) ==
  \/ HandleMessage(e)
  \/ Resume(e)

Next == \E e \in Events : Handle(e)

\* The message-intake pipeline: inbound events, handled concurrently.
Spec == Init /\ [][Next]_vars

(* ------------- the exported API and the HTTP status request ----------- *)
Statuses == ValidStatuses \cup {"bogus"}
Texts == {"A", "B"}
Senders == {"lead", "bot"}

Call(op, phoneNumber, arg, threw, code, classification) ==
  [op |-> op, phoneNumber |-> phoneNumber, arg |-> arg, threw |-> threw,
   code |-> code, classification |-> classification,
   outcome |-> Outcome("none", NoClassification),
   reply |-> "", history |-> <<>>, input |-> <<>>, output |-> <<>>]

Called(call, db) ==
  /\ lastCall' = call
  /\ ncalls' = ncalls + 1
  /\ Store(db)
  /\ UNCHANGED <<handlers, clock, connection>>

\* leadService.createOrGetLead(phoneNumber)
CallCreateOrGetLead ==
  /\ ncalls < MaxCalls
  /\ \E p \in Phones :
       LET r == leadService_createOrGetLead(DB, p, "Não informado")
       IN  Called(Call("createOrGetLead", p, "", r.threw, 0, NoClassification), r.db)

\* leadService.addMessage(phoneNumber, text, sender)
CallAddMessage ==
  /\ ncalls < MaxCalls
  /\ \E p \in Phones, t \in Texts, sender \in Senders :
       LET r == leadService_addMessage(DB, p, t, sender)
       IN  Called(Call("addMessage", p, sender, r.threw, 0, NoClassification), r.db)

\* leadService.updateStatus(phoneNumber, status), any string as status
CallUpdateStatus ==
  /\ ncalls < MaxCalls
  /\ \E p \in Phones, st \in Statuses :
       LET r == leadService_updateStatus(DB, p, st)
       IN  Called(Call("updateStatus", p, st, r.threw, 0, NoClassification), r.db)

\* Lead.updateStatus(phoneNumber, status), the model function itself
CallLeadUpdateStatus ==
  /\ ncalls < MaxCalls
  /\ \E p \in Phones, st \in Statuses :
       LET r == Lead_updateStatus(DB, p, st)
       IN  Called(Call("Lead.updateStatus", p, st, r.threw, 0, NoClassification), r.db)

\* PATCH /leads/:phoneNumber/status: the response code and the store after it.
updateLeadStatus_NoValidation(db, phoneNumber, status) ==
  IF ~Truthy(status) THEN [code |-> 400, db |-> db]
  ELSE LET r == leadService_updateStatus(db, phoneNumber, status)
       IN  [code |-> IF r.threw THEN 500 ELSE 200, db |-> r.db]

updateLeadStatus(db, phoneNumber, status) ==
  IF ~Truthy(status) THEN [code |-> 400, db |-> db]
  ELSE IF status \notin ValidStatuses THEN [code |-> 400, db |-> db]
  ELSE LET r == leadService_updateStatus(db, phoneNumber, status)
       IN  [code |-> IF r.threw THEN 500 ELSE 200, db |-> r.db]

PatchLeadStatus ==
  /\ ncalls < MaxCalls
  /\ \E p \in Phones, st \in Statuses \cup {Undefined, ""} :
       LET r == updateLeadStatus(DB, p, st)
       IN  Called(Call("PATCH status", p, st, FALSE, r.code, NoClassification), r.db)

\* aiService.classifyMessage(message), any value as message
CallClassifyMessage ==
  /\ ncalls < MaxCalls
  /\ \E m \in {"A", "", Undefined}, outcome \in BackendOutcomes :
       LET c == classifyMessage(m, outcome)
       IN  Called([Call("classifyMessage", "", m, c.threw, 0, c.value)
                     EXCEPT !.outcome = outcome], DB)

\* leadService.updateClassification(phoneNumber, classification)
CallUpdateClassification ==
  /\ ncalls < MaxCalls
  /\ \E p \in Phones, c \in {Classification("suporte", "negativo", "alta")} :
       LET r == leadService_updateClassification(DB, p, c)
       IN  Called(Call("updateClassification", p, "", r.threw, 0, c), r.db)

\* Lead.findByPhoneWithMessages(phoneNumber): a read, any of its results
CallFindByPhoneWithMessages ==
  /\ \E p \in Phones : \E r \in Lead_findByPhoneWithMessages(DB, p) :
       lastCall' = [Call("findByPhoneWithMessages", p, "", FALSE, 0, NoClassification)
                      EXCEPT !.history = r.messages]
  /\ UNCHANGED <<leads, messages, handlers, ncalls, clock, sqlite, connection>>

\* The reply texts for a classification: aiService.generateAutoResponse and
\* the message sendClassificationResponse selects.
ReplyInputs ==
  { Classification(i, sp[1], sp[2]) :
      i \in Intents \cup {"spam", "constructor"},
      sp \in {<<"neutro", "média">>, <<"negativo", "alta">>} }

CallGenerateAutoResponse ==
  /\ \E c \in ReplyInputs :
       lastCall' = [Call("generateAutoResponse", "", generateAutoResponse(c),
                         FALSE, 0, c)
                      EXCEPT !.reply = classificationResponseText(c)]
  /\ UNCHANGED <<leads, messages, handlers, ncalls, clock, sqlite, connection>>

\* A second passes on the wall clock.
Tick ==
  /\ clock < MaxClock
  /\ clock' = clock + 1
  /\ UNCHANGED <<leads, messages, handlers, lastCall, ncalls, sqlite, connection>>

NextStore ==
  \/ CallCreateOrGetLead
  \/ CallAddMessage
  \/ CallUpdateStatus
  \/ CallLeadUpdateStatus
  \/ PatchLeadStatus
  \/ CallClassifyMessage
  \/ CallUpdateClassification
  \/ CallFindByPhoneWithMessages
  \/ CallGenerateAutoResponse
  \/ Tick

\* The Lead Store and the classifier gateway driven through their exported
\* functions and the status request, one synchronous call at a time.
SpecStore == Init /\ [][NextStore]_vars

(* -------------- one batch of inbound events, SQLite errors ------------ *)
\* SQLite fails the next statement of the connection.
StoreFault ==
  /\ sqlite.failures < MaxFailures
  /\ ~sqlite.failNext
  /\ sqlite' = [failNext |-> TRUE, failures |-> sqlite.failures + 1]
  /\ UNCHANGED <<leads, messages, handlers, lastCall, ncalls, clock, connection>>

\* The type of a messages.upsert event: new messages or history.
UpsertTypes == {"notify", "append"}

\* Addresses that are no contact's: a group and a linked-device id.
GroupJid == [user |-> "1203", server |-> "g.us"]
OtherJid == [user |-> "7788", server |-> "lid"]

\* The messages of an upsert event: of contacts and status broadcasts, of
\* groups and of other addresses.
RoutedMessages(id) ==
  InboundMessages(id) \cup
  { [key |-> [fromMe |-> FALSE, remoteJid |-> j, id |-> id],
     pushName |-> Undefined,
     message |-> Body("A", Undefined, Undefined, Undefined)] :
      j \in {GroupJid, OtherJid} }

\* handleGroupMessage and the last branch of routeMessage: a log line.
Ignored(h0, m, db) ==
  [db |-> db, h |-> [h0 EXCEPT !.key = m.key, !.pc = "done"]]

routeMessage_GroupsHandled(h0, m, db) ==
  IF m.key.remoteJid.server \in {"g.us", "s.whatsapp.net"}
  THEN Entry(h0, m, db)
  ELSE Ignored(h0, m, db)

\* routeMessage: jid.endsWith('@g.us') goes to handleGroupMessage,
\* jid.endsWith('@s.whatsapp.net') to handleMessage, the rest is logged.
routeMessage(h0, m, db) ==
  IF m.key.remoteJid.server = "g.us" THEN Ignored(h0, m, db)
  ELSE IF m.key.remoteJid.server = "s.whatsapp.net" THEN Entry(h0, m, db)
  ELSE Ignored(h0, m, db)

\* A messages.upsert event is emitted.
MessagesUpsert ==
  /\ lastCall.op = "none"
  /\ \E type \in UpsertTypes :
       lastCall' = [NoCall EXCEPT !.op = "messages.upsert", !.arg = type]
  /\ UNCHANGED <<leads, messages, handlers, ncalls, clock, sqlite, connection>>

\* The listener calls messageHandler (routeMessage) with a message of the
\* event: up to the first await of handleMessage, or to the return.
RouteMessage(e) ==
  /\ handlers[e].pc = "idle"
  /\ \A d \in Events : d < e => handlers[d].pc # "idle"
  /\ \E m \in RoutedMessages(e) \cup Redelivered(e) :
       LET h0 == [handlers[e] EXCEPT
                    !.prior = {d \in Events : handlers[d].pc = "done"}]
           r == routeMessage(h0, m, DB)
       IN  /\ Store(r.db)
           /\ handlers' = [handlers EXCEPT ![e] = r.h]
  /\ UNCHANGED <<lastCall, ncalls, clock, connection>>

HandleInOrder_NoAwait(e) ==
  /\ lastCall.op = "messages.upsert"
  /\ lastCall.arg = "notify"
  /\ \/ RouteMessage(e)
     \/ Resume(e)

\* The messages.upsert listener: if (type === 'notify')
\* for (const message of messages) await messageHandler(sock, message), so
\* the handler of a message starts when the promise of the one before it
\* has settled.
HandleInOrder(e) ==
  /\ lastCall.op = "messages.upsert"
  /\ lastCall.arg = "notify"
  /\ \A d \in Events : d < e => handlers[d].pc = "done"
  /\ \/ RouteMessage(e)
     \/ Resume(e)

NextBatch ==
  \/ MessagesUpsert
  \/ StoreFault
  \/ \E e \in Events : HandleInOrder(e)

\* The messages of one messages.upsert event, handled one after another,
\* on a connection whose statements can fail.
SpecBatch == Init /\ [][NextBatch]_vars

(* ------------------------- the connection's life ---------------------- *)
Connection(c) ==
  /\ connection' = c
  /\ UNCHANGED <<leads, messages, handlers, lastCall, ncalls, clock, sqlite>>

\* How startServer ends: it runs through, or it throws at the validation of
\* the environment, in connectDB or in connectToWhatsApp.
StartOutcomes == {"ok", "env", "database", "whatsapp"}

\* startServer: the environment is validated, the store and the HTTP server
\* are started, await connectToWhatsApp(routeMessage); its catch awaits
\* gracefulShutdown('Erro na inicialização') and then has process.exit(1).
StartServer ==
  /\ connection = NotStarted
  /\ \E outcome \in StartOutcomes, ok \in BOOLEAN :
       LET c == IF outcome \in {"ok", "whatsapp"}
                THEN connectToWhatsApp(connection, outcome = "ok")
                ELSE connection
       IN  Connection(IF outcome = "ok" THEN c
                      ELSE gracefulShutdown(c, "Erro na inicialização", ok))

\* connection.update with connection === 'open': logged, nothing else.
ConnectionOpen ==
  /\ connection.process = "running"
  /\ connection.state = "connecting"
  /\ Connection([connection EXCEPT !.state = "open"])

\* connection.update with connection === 'close': the reconnect timer is
\* armed unless the status code is loggedOut.
ConnectionClose ==
  /\ connection.process = "running"
  /\ connection.state \in {"connecting", "open"}
  /\ connection.closes < MaxCloses
  /\ \E code \in StatusCodes :
       Connection([connection EXCEPT
         !.state = "close", !.statusCode = code, !.closes = @ + 1,
         !.timer = IF shouldReconnect(code) THEN ReconnectDelay ELSE NoTimer])

\* A second of the armed timer passes.
TimerTick ==
  /\ connection.process = "running"
  /\ connection.timer > 0
  /\ Connection([connection EXCEPT !.timer = @ - 1])

\* The timer fires: connectToWhatsApp(messageHandler), its promise dropped;
\* a rejection reaches the unhandledRejection handler of server.js.
ReconnectTimer ==
  /\ connection.process = "running"
  /\ connection.timer = 0
  /\ \E connected \in BOOLEAN, ok \in BOOLEAN :
       LET c == connectToWhatsApp(connection, connected)
       IN  Connection(IF connected THEN c
                      ELSE gracefulShutdown(c, "unhandledRejection", ok))

NextConnection ==
  \/ StartServer
  \/ ConnectionOpen
  \/ ConnectionClose
  \/ TimerTick
  \/ ReconnectTimer

\* The WhatsApp connection from startServer on.
SpecConnection == Init /\ [][NextConnection]_vars

(* ------------------------- contact identities ------------------------- *)
\* A raw contact address is given.
InitNormalizer ==
  /\ leads = <<>>
  /\ messages = <<>>
  /\ handlers = [e \in Events |-> IdleHandler]
  /\ \E number \in PhoneInputs : lastCall = [NoCall EXCEPT !.input = number]
  /\ ncalls = 0
  /\ clock = 0
  /\ sqlite = [failNext |-> FALSE, failures |-> 0]
  /\ connection = NotStarted

\* formatPhoneNumber(number)
CallFormatPhoneNumber ==
  /\ lastCall.op = "none"
  /\ lastCall' = [lastCall EXCEPT !.op = "formatPhoneNumber",
                                  !.output = formatPhoneNumber(lastCall.input)]
  /\ UNCHANGED <<leads, messages, handlers, ncalls, clock, sqlite, connection>>

\* handleMessage(sock, message) for a text message whose sender's JID has
\* the given address in front of the '@'.
HandleMessageFrom ==
  /\ lastCall.op = "none"
  /\ LET m == [key |-> [fromMe |-> FALSE,
                        remoteJid |-> [user |-> lastCall.input,
                                       server |-> "s.whatsapp.net"],
                        id |-> 1],
               pushName |-> Undefined,
               message |-> Body("A", Undefined, Undefined, Undefined)]
         r == Entry(handlers[1], m, DB)
     IN  /\ Store(r.db)
         /\ handlers' = [handlers EXCEPT ![1] = r.h]
         /\ lastCall' = [lastCall EXCEPT !.op = "handleMessage"]
  /\ UNCHANGED <<ncalls, clock, connection>>

\* formatPhoneNumber(formatPhoneNumber(number)): the function is called
\* with its own result, which is kept for comparison.
CallFormatPhoneNumberAgain ==
  /\ lastCall.op = "formatPhoneNumber"
  /\ lastCall' = [lastCall EXCEPT !.op = "formatPhoneNumber twice",
                                  !.arg = lastCall.output,
                                  !.output = formatPhoneNumber(lastCall.output)]
  /\ UNCHANGED <<leads, messages, handlers, ncalls, clock, sqlite, connection>>

NextNormalizer ==
  \/ CallFormatPhoneNumber
  \/ CallFormatPhoneNumberAgain
  \/ HandleMessageFrom

SpecNormalizer == InitNormalizer /\ [][NextNormalizer]_vars

(* ------------------------------- app.js ------------------------------ *)
\* A request is a method and a path; the path is the sequence of its
\* segments, so /leads/5511/status is <<"leads", "5511", "status">>.
Methods == {"GET", "PATCH", "POST"}
Segments == {"status", "health", "leads", "stats", "5511"}
Requests ==
  [method : Methods,
   path : UNION {[1..k -> Segments] : k \in 0..MaxSegments}]

\* A router that matched no route passes the request on.
NextMiddleware == "next()"

\* routes/statusRoutes.js: router.get('/', getStatus),
\* router.get('/health', getHealthCheck); rest is the path after the
\* prefix the router is mounted at.
statusRoutes(method, rest) ==
  IF method = "GET" /\ rest = <<>> THEN "getStatus"
  ELSE IF method = "GET" /\ rest = <<"health">> THEN "getHealthCheck"
  ELSE NextMiddleware

\* routes/leadRoutes.js, in the order the routes are registered
leadRoutes(method, rest) ==
  IF method = "GET" /\ rest = <<"stats">> THEN "getStats"
  ELSE IF method = "GET" /\ rest = <<>> THEN "listLeads"
  ELSE IF method = "GET" /\ Len(rest) = 1 THEN "getLeadByPhone"
  ELSE IF method = "PATCH" /\ Len(rest) = 2 /\ rest[2] = "status"
  THEN "updateLeadStatus"
  ELSE NextMiddleware

\* app.js: app.get('/'), then the routers mounted with app.use(prefix, ...)
\* in the order of lines 138, 139 and 147, then the 404 middleware.
app(method, path) ==
  LET rest == Tail(path)
      Mounted(prefix, router) ==
        path # <<>> /\ Head(path) = prefix /\ router # NextMiddleware
  IN  IF method = "GET" /\ path = <<>> THEN "root"
      ELSE IF Mounted("status", statusRoutes(method, rest))
      THEN statusRoutes(method, rest)
      ELSE IF Mounted("health", statusRoutes(method, rest))
      THEN statusRoutes(method, rest)
      ELSE IF Mounted("leads", leadRoutes(method, rest))
      THEN leadRoutes(method, rest)
      ELSE "notFound"

\* The top-level keys of the JSON body a handler answers with.
ResponseKeys(handler) ==
  IF handler = "getHealthCheck" THEN {"status", "timestamp"}
  ELSE IF handler = "getStatus" THEN {"success", "data"}
  ELSE IF handler = "root" THEN {"name", "version", "status", "documentation"}
  ELSE IF handler = "notFound"
  THEN {"success", "error", "path", "method", "availableEndpoints"}
  ELSE {"success", "data", "error", "message"}

\* A request is given.
InitHttp ==
  /\ leads = <<>>
  /\ messages = <<>>
  /\ handlers = [e \in Events |-> IdleHandler]
  /\ \E req \in Requests : lastCall = [NoCall EXCEPT !.input = req]
  /\ ncalls = 0
  /\ clock = 0
  /\ sqlite = [failNext |-> FALSE, failures |-> 0]
  /\ connection = NotStarted

\* The application answers the request (it has no body, and the store is
\* empty, so no handler changes the store).
HttpRequest ==
  /\ lastCall.op = "none"
  /\ LET handler == app(lastCall.input.method, lastCall.input.path)
     IN  lastCall' = [lastCall EXCEPT !.op = "http", !.arg = handler,
                                     !.output = ResponseKeys(handler)]
  /\ UNCHANGED <<leads, messages, handlers, ncalls, clock, sqlite, connection>>

NextHttp == HttpRequest

SpecHttp == InitHttp /\ [][NextHttp]_vars

(* ------------------------------ progress ------------------------------ *)
\* One handleMessage call, for the only inbound event there is.
HandleAlone(e) ==
  /\ \A d \in Events \ {e} : handlers[d].pc = "idle"
  /\ Handle(e)

\* A step of a handleMessage call that has started: the promise it awaits
\* settles and the handler runs on to its next await.
Settle(e) == handlers[e].pc # "idle" /\ HandleAlone(e)

\* One inbound event, on a store that createOrGetLead calls fill as well.
NextLive ==
  \/ CallCreateOrGetLead
  \/ \E e \in Events : HandleAlone(e)

\* Every awaited promise settles: timers fire, channel calls return or
\* fail, the classifier request answers, fails or times out.
SpecLive ==
  Init /\ [][NextLive]_vars /\ \A e \in Events : WF_vars(Settle(e))

(* ------------------------------ operator ------------------------------ *)
\* Inbound events, one handleMessage call at a time, while an operator
\* sends PATCH /leads/:phoneNumber/status requests; a request is served
\* whenever the running handler is at an await.
NextOperator ==
  \/ PatchLeadStatus
  \/ \E e \in Events : HandleAlone(e)

SpecOperator == Init /\ [][NextOperator]_vars

(* ------------------------------ properties ---------------------------- *)
HasEffect(h, op) == \E i \in 1..Len(h.trace) : h.trace[i].op = op
HasSend(h, text) ==
  \E i \in 1..Len(h.trace) : h.trace[i].op = "send" /\ h.trace[i].arg = text
\* The handler of e found or created the Lead of its sender.
Upserted(e) ==
  \E i \in 1..Len(handlers[e].trace) :
    handlers[e].trace[i].op = "createOrGetLead" /\ handlers[e].trace[i].ok
InFlight(e) == handlers[e].pc \notin {"idle", "done"}
LeadTriple(row) == Classification(row.intent, row.sentiment, row.priority)

\* C1: after any interleaving of inbound events the leads table holds at most
\* one Lead per phoneNumber, and exactly one once createOrGetLead / findOrCreate
\* has returned for that number.
C1_OneLeadPerPhone ==
  \A p \in Phones :
    /\ Len(LeadRows(DB, p)) <= 1
    /\ (\E e \in Events : Upserted(e) /\ handlers[e].phoneNumber = p)
         => Len(LeadRows(DB, p)) = 1

\* Two events of one contact are in flight together, both past findOrCreate.
C1_Witness ==
  \E e1, e2 \in Events :
    /\ e1 # e2
    /\ handlers[e1].phoneNumber = handlers[e2].phoneNumber
    /\ Upserted(e1) /\ Upserted(e2) /\ InFlight(e1) /\ InFlight(e2)
    /\ Len(LeadRows(DB, handlers[e1].phoneNumber)) = 1

\* C2: isFirstMessage is true for an inbound text event if and only if the
\* history of the event's own Lead was empty just before its message is appended.
C2_FirstMessageIffOwnHistoryEmpty ==
  \A e \in Events :
    Upserted(e) => (handlers[e].isFirstMessage <=> handlers[e].historyWasEmpty)

\* C3: runWelcomeFlow is started at most once for each Lead.
C3_WelcomeAtMostOncePerLead ==
  \A p \in Phones :
    Cardinality({e \in Events : /\ handlers[e].phoneNumber = p
                                /\ HasEffect(handlers[e], "runWelcomeFlow")}) <= 1

\* C4: a contact's text message 1 and then its text message 2 (handled after
\* message 1 finished): onboarding runs while handling message 1 and does not
\* run while handling message 2.
C4_WelcomeOnFirstMessageOnly ==
  \A e1, e2 \in Events :
    ( /\ e1 \in handlers[e2].prior
      /\ handlers[e1].phoneNumber = handlers[e2].phoneNumber
      /\ Upserted(e1) /\ Upserted(e2)
      /\ handlers[e1].historyWasEmpty
      /\ handlers[e2].pc = "done" )
    => ( /\ HasEffect(handlers[e1], "runWelcomeFlow")
         /\ ~HasEffect(handlers[e2], "runWelcomeFlow") )

\* C5: classifyMessage never raises; it returns the backend's triple when the
\* message is a non-empty string and the backend answered an object with a
\* non-empty intent, sentiment and priority, and exactly the fixed fallback
\* {outro, neutro, média} in every other case.
C5_ClassifyFallback ==
  LET o == lastCall.outcome
      complete == /\ Truthy(lastCall.arg)
                  /\ o.kind = "object"
                  /\ Truthy(o.classification.intent)
                  /\ Truthy(o.classification.sentiment)
                  /\ Truthy(o.classification.priority)
  IN  lastCall.op = "classifyMessage" =>
        /\ ~lastCall.threw
        /\ lastCall.classification =
             IF complete THEN o.classification
             ELSE Classification("outro", "neutro", "média")

\* classifyMessage answered a backend timeout with the fallback.
C5_Witness ==
  /\ lastCall.op = "classifyMessage"
  /\ lastCall.outcome.kind = "timeout"
  /\ Truthy(lastCall.arg)
  /\ lastCall.classification = Classification("outro", "neutro", "média")

\* C6: when the classification backend call of an inbound text event fails,
\* the inbound message is in the Lead's history (sender 'lead'), the fallback
\* classification is stored on the Lead, and the automatic reply is attempted.
C6_FallbackKeepsPipeline ==
  [][ \A e \in Events :
        LET h == handlers'[e]
            db2 == [leads |-> leads', messages |-> messages']
        IN  /\ (handlers[e].backend # "failed" /\ h.backend = "failed") =>
                 /\ \E i \in 1..Len(messages') :
                      /\ messages'[i].phoneNumber = h.phoneNumber
                      /\ messages'[i].text = h.messageText
                      /\ messages'[i].sender = "lead"
                 /\ LeadRows(db2, h.phoneNumber) # <<>>
                 /\ LeadTriple(Head(LeadRows(db2, h.phoneNumber)))
                      = Classification("outro", "neutro", "média")
                 /\ h.pc = "replyTyping"
            /\ (h.backend = "failed" /\ h.pc = "done") =>
                 HasSend(h, "sendClassificationResponse/outro")
    ]_vars

\* An event whose backend call failed has been handled to its end, its reply
\* was attempted and recorded.
C6_Witness ==
  \E e \in Events :
    /\ handlers[e].backend = "failed"
    /\ handlers[e].pc = "done"
    /\ HasSend(handlers[e], "sendClassificationResponse/outro")
    /\ \E i \in 1..Len(messages) :
         messages[i].phoneNumber = handlers[e].phoneNumber /\ messages[i].sender = "lead"

Filtered(key) == key.fromMe = TRUE \/ key.remoteJid = StatusBroadcast

\* C7: an inbound event with key.fromMe = true or from 'status@broadcast'
\* leaves the leads and messages tables unchanged and causes no send, no read
\* acknowledgement and no classifier call: its handler returns with no effect.
C7_FilteredEventHasNoEffect ==
  [][ \A e \in Events :
        (handlers'[e].pc # "idle" /\ Filtered(handlers'[e].key)) =>
          /\ handlers'[e].pc = "done"
          /\ handlers'[e].trace = <<>>
          /\ (handlers[e].pc = "idle" => leads' = leads /\ messages' = messages)
    ]_vars

\* A self-echo and a status broadcast have both been received and dropped.
C7_Witness ==
  \E e1, e2 \in Events :
    /\ handlers[e1].pc = "done" /\ handlers[e1].key.fromMe = TRUE
    /\ handlers[e2].pc = "done" /\ handlers[e2].key.fromMe = FALSE
    /\ handlers[e2].key.remoteJid = StatusBroadcast
    /\ leads = <<>> /\ messages = <<>>

\* An event that passed the filter and carries no text.
NoText(h) == h.pc # "idle" /\ ~Filtered(h.key) /\ ~Truthy(h.messageText)

\* C8: for an inbound event with no extractable text the handler sends the
\* 'text only' notice once and terminates: its steps leave both tables
\* unchanged, and it calls neither the store nor the classifier (the only other
\* effect it can have is the apology send after a failed notice send).
C8_NoTextNoStoreWrite ==
  [][ \A e \in Events :
        NoText(handlers'[e]) =>
          LET h == handlers'[e]
          IN  /\ (handlers[e] # h => leads' = leads /\ messages' = messages)
              /\ \A i \in 1..Len(h.trace) : h.trace[i].op = "send"
              /\ h.pc = "done" =>
                   /\ Len(h.trace) >= 1
                   /\ h.trace[1].arg = TextOnlyNotice
                   /\ \A i \in 2..Len(h.trace) : h.trace[i].arg # TextOnlyNotice
                   /\ (h.trace[1].ok => Len(h.trace) = 1)
    ]_vars

\* A media-only event was answered with the notice while a Lead of another
\* contact exists.
C8_Witness ==
  \E e \in Events :
    /\ NoText(handlers[e])
    /\ handlers[e].pc = "done"
    /\ handlers[e].trace = <<Effect("send", TextOnlyNotice, TRUE)>>
    /\ LeadRows(DB, handlers[e].phoneNumber) = <<>>
    /\ leads # <<>>

\* C9: updateStatus (Lead.updateStatus / leadService.updateStatus) for an
\* existing Lead with a value outside {novo, em_atendimento, finalizado} fails
\* with an error and leaves the stored status unchanged.
C9_InvalidStatusRejected ==
  [][ ( /\ ncalls' = ncalls + 1
        /\ lastCall'.op \in {"updateStatus", "Lead.updateStatus"}
        /\ lastCall'.arg \notin {"novo", "em_atendimento", "finalizado"}
        /\ LeadRows(DB, lastCall'.phoneNumber) # <<>> )
      => (lastCall'.threw /\ leads' = leads)
    ]_vars

\* C10: addMessage for a phone number that has no Lead fails with an error,
\* adds no row to the message history and creates no Lead.
C10_AddMessageNeedsLead ==
  [][ ( /\ ncalls' = ncalls + 1
        /\ lastCall'.op = "addMessage"
        /\ LeadRows(DB, lastCall'.phoneNumber) = <<>> )
      => (lastCall'.threw /\ messages' = messages /\ leads' = leads)
    ]_vars

\* addMessage was refused for a contact without a Lead, while another
\* contact has a Lead and a history.
C10_Witness ==
  /\ lastCall.op = "addMessage"
  /\ lastCall.threw
  /\ LeadRows(DB, lastCall.phoneNumber) = <<>>
  /\ MessageRows(DB, lastCall.phoneNumber) = <<>>
  /\ messages # <<>>

\* What runWelcomeFlow did for the handler: its effects between the call and
\* the updateStatus that follows its return.
WelcomeReturned(h) == HasEffect(h, "runWelcomeFlow") /\ HasEffect(h, "updateStatus")
IndexOf(h, op) == CHOOSE i \in 1..Len(h.trace) : h.trace[i].op = op
WelcomeEffects(h) ==
  SubSeq(h.trace, IndexOf(h, "runWelcomeFlow") + 1, IndexOf(h, "updateStatus") - 1)
NoSendFailed(effects) ==
  \A i \in 1..Len(effects) : effects[i].op = "send" => effects[i].ok

\* C11: when no send fails, runWelcomeFlow sends exactly three messages, in the
\* order greeting, presentation, expectations, each preceded by its own delay
\* and its own typing-indicator step.
C11_WelcomeSequence ==
  \A e \in Events :
    (WelcomeReturned(handlers[e]) /\ NoSendFailed(WelcomeEffects(handlers[e])))
    => WelcomeEffects(handlers[e]) =
         << Effect("sleep", "greeting", TRUE),
            Effect("simulateTyping", "greeting", TRUE),
            Effect("send", "greeting", TRUE),
            Effect("sleep", "presentation", TRUE),
            Effect("simulateTyping", "presentation", TRUE),
            Effect("send", "presentation", TRUE),
            Effect("sleep", "expectations", TRUE),
            Effect("simulateTyping", "expectations", TRUE),
            Effect("send", "expectations", TRUE) >>

\* A handler ran the whole welcome flow without a failed send and went on to
\* its reply.
C11_Witness ==
  \E e \in Events :
    /\ WelcomeReturned(handlers[e])
    /\ NoSendFailed(WelcomeEffects(handlers[e]))
    /\ Len(WelcomeEffects(handlers[e])) = 9
    /\ handlers[e].pc = "done"

\* C12: in runWelcomeFlow, when the send of one onboarding step fails, every
\* onboarding step after it is still attempted.
C12_WelcomeContinuesAfterFailedSend ==
  \A e \in Events :
    WelcomeReturned(handlers[e]) =>
      LET w == WelcomeEffects(handlers[e])
      IN  \A i \in 1..Len(WelcomeSteps) :
            (\E k \in 1..Len(w) : /\ w[k].op = "send" /\ ~w[k].ok
                                   /\ w[k].arg = WelcomeSteps[i])
            => \A j \in (i + 1)..Len(WelcomeSteps) :
                 \E k \in 1..Len(w) : w[k].op = "send" /\ w[k].arg = WelcomeSteps[j]

\* The texts of one template of one of the two reply tables.
TemplateTexts(table, t) ==
  {table \o "/" \o t, table \o "/" \o t \o "/URGENTE"}

\* C13: generateAutoResponse and sendClassificationResponse pick the template
\* of the classification's intent, and the 'outro' template for every intent
\* outside {orçamento, dúvida, suporte, outro}; priority and sentiment never
\* change which template is picked.
C13_TemplateByIntentAlone ==
  lastCall.op = "generateAutoResponse" =>
    LET i == lastCall.classification.intent
        t == IF i \in {"orçamento", "dúvida", "suporte", "outro"} THEN i ELSE "outro"
    IN  /\ lastCall.arg \in TemplateTexts("generateAutoResponse", t)
        /\ lastCall.reply \in TemplateTexts("sendClassificationResponse", t)

\* C14: the text appended to the history with sender 'bot' is the text that
\* was sent to the contact as the automatic reply of that event.
C14_RecordedReplyIsSentReply ==
  [][ \A e \in Events :
        LET t == handlers'[e].trace
        IN  ( /\ Len(t) = Len(handlers[e].trace) + 2
              /\ t[Len(t)] = Effect("addMessage", "bot", TRUE)
              /\ t[Len(t) - 1].op = "send" )
            => /\ Len(messages') = Len(messages) + 1
               /\ messages'[Len(messages')].sender = "bot"
               /\ messages'[Len(messages')].text = t[Len(t) - 1].arg
    ]_vars

\* An effect that threw into the catch block of handleMessage: a store call,
\* or the send of the 'text only' notice.
Throwing(eff) ==
  /\ ~eff.ok
  /\ \/ eff.op \in {"createOrGetLead", "addMessage", "updateStatus",
                     "updateClassification"}
     \/ eff.op = "send" /\ eff.arg = TextOnlyNotice
IsApology(eff) == eff.op = "send" /\ eff.arg = ApologyText

\* C15: whatever step of handleMessage throws, the handler attempts at most
\* one apology send, does nothing else for the event after the throw, and
\* finishes whether the apology send succeeds or fails; the handlers of the
\* other events can always take their next step.
C15_OneApologyThenDone ==
  \A e \in Events :
    LET h == handlers[e]
        t == h.trace
    IN  /\ Cardinality({i \in 1..Len(t) : IsApology(t[i])}) <= 1
        /\ \A i \in 1..Len(t) :
             Throwing(t[i]) =>
               \/ i = Len(t) /\ h.pc = "apology"
               \/ i = Len(t) - 1 /\ IsApology(t[Len(t)]) /\ h.pc = "done"
        /\ h.pc = "apology" => ENABLED SendApology(e)
        /\ (h.pc = "apology" \/ \E i \in 1..Len(t) : Throwing(t[i])) =>
             \A d \in Events \ {e} :
               /\ InFlight(d) => ENABLED Handle(d)
               /\ ( /\ handlers[d].pc = "idle"
                    /\ \A c \in Events : c < d => handlers[c].pc # "idle" )
                  => ENABLED HandleMessage(d)

\* A store write of one event threw and its apology send failed too; an event
\* that arrived after that was handled to its reply.
C15_Witness ==
  \E e1, e2 \in Events :
    /\ handlers[e1].pc = "done" /\ handlers[e1].trace # <<>>
    /\ \E i \in 1..Len(handlers[e1].trace) :
         /\ Throwing(handlers[e1].trace[i])
         /\ handlers[e1].trace[i].op = "updateClassification"
    /\ handlers[e1].trace[Len(handlers[e1].trace)] = Effect("send", ApologyText, FALSE)
    /\ e1 \in handlers[e2].prior
    /\ handlers[e2].pc = "done" /\ handlers[e2].trace # <<>>
    /\ handlers[e2].trace[Len(handlers[e2].trace)] = Effect("addMessage", "bot", TRUE)

\* The reply send of sendClassificationResponse went out with the text of a
\* reply template.
ReplySent(h) ==
  \E i \in 2..Len(h.trace) :
    /\ h.trace[i].op = "send" /\ h.trace[i].ok
    /\ h.trace[i].arg # InheritedMember
    /\ h.trace[i - 1] = Effect("simulateTyping", "reply", TRUE)
ApologySent(h) ==
  \E i \in 1..Len(h.trace) : IsApology(h.trace[i]) /\ h.trace[i].ok

\* C16: for an inbound text event that passes the filter the contact is sent
\* the classification reply or the apology, never both.
C16_ReplyOrApologyNotBoth ==
  \A e \in Events :
    Truthy(handlers[e].messageText) =>
      ~(ReplySent(handlers[e]) /\ ApologySent(handlers[e]))

AllOk(h) == \A i \in 1..Len(h.trace) : h.trace[i].ok
HasSentOk(h, text) ==
  \E i \in 1..Len(h.trace) :
    h.trace[i].op = "send" /\ h.trace[i].arg = text /\ h.trace[i].ok

\* C17: after a new contact's first text message (the only event of that
\* contact) is processed with every external call succeeding, the Lead's
\* history is exactly the inbound message (sender 'lead') followed by the
\* reply (sender 'bot'), and the three onboarding messages have been sent.
C17_FirstMessageHistoryAndOnboarding ==
  \A e \in Events :
    LET h == handlers[e]
        rows == MessageRows(DB, h.phoneNumber)
    IN  ( /\ h.pc = "done" /\ Upserted(e) /\ h.historyWasEmpty
          /\ AllOk(h) /\ h.backend = "answered"
          /\ \A d \in Events \ {e} : handlers[d].phoneNumber # h.phoneNumber )
        => /\ Len(rows) = 2
           /\ rows[1].sender = "lead" /\ rows[1].text = h.messageText
           /\ rows[2].sender = "bot"
           /\ \A i \in 1..Len(WelcomeSteps) : HasSentOk(h, WelcomeSteps[i])

\* C18: messages come back from findByPhoneWithMessages in the order they
\* were appended (ids are given in append order).
C18_HistoryInAppendOrder ==
  lastCall.op = "findByPhoneWithMessages" =>
    \A k, l \in 1..Len(lastCall.history) :
      k < l => lastCall.history[k].id < lastCall.history[l].id

\* C18 as amended: findByPhoneWithMessages returns every message of the Lead,
\* and a message appended earlier with an earlier timestamp comes before a
\* message appended later with a later timestamp.
C18_HistoryInTimestampOrder ==
  lastCall.op = "findByPhoneWithMessages" =>
    LET hist == lastCall.history
    IN  /\ Len(hist) = Len(MessageRows(DB, lastCall.phoneNumber))
        /\ \A k, l \in 1..Len(hist) :
             (hist[k].id < hist[l].id /\ hist[k].timestamp < hist[l].timestamp)
             => k < l

\* 'A' was appended, a second passed, 'B' was appended, and the read returned
\* [A, B].
C18_Witness ==
  /\ lastCall.op = "findByPhoneWithMessages"
  /\ Len(lastCall.history) = 2
  /\ lastCall.history[1].text = "A" /\ lastCall.history[2].text = "B"
  /\ lastCall.history[1].timestamp < lastCall.history[2].timestamp

\* C19: the history is append-only: no step changes or removes a stored
\* message, so each Lead's history before a step is a prefix of its history
\* after the step.
C19_HistoryAppendOnly ==
  [][ \A p \in Phones :
        LET before == MessageRows(DB, p)
            after == MessageRows([leads |-> leads', messages |-> messages'], p)
        IN  /\ Len(after) >= Len(before)
            /\ SubSeq(after, 1, Len(before)) = before
    ]_vars

\* A Lead with a two-message history was written to again, by an append.
C19_Witness ==
  /\ lastCall.op = "addMessage" /\ ~lastCall.threw
  /\ Len(MessageRows(DB, lastCall.phoneNumber)) = 2
  /\ MessageRows(DB, lastCall.phoneNumber)[1].id
       < MessageRows(DB, lastCall.phoneNumber)[2].id

MarkAsReadFailed(h) ==
  \E i \in 1..Len(h.trace) : h.trace[i].op = "markAsRead" /\ ~h.trace[i].ok

\* C20: a failed markAsRead does not abort the pipeline: the handler goes on
\* to onboarding (first message) or classification, and unless a later step
\* throws it stores the classification, attempts the reply and sends no apology.
C20_MarkAsReadFailureSwallowed ==
  [][ \A e \in Events :
        LET h == handlers[e]
            h2 == handlers'[e]
        IN  /\ (h.pc = "markRead" /\ h2 # h) =>
                 h2.pc = IF h.isFirstMessage THEN "welcomeSleep" ELSE "classify"
            /\ (MarkAsReadFailed(h2) /\ h2.pc = "apology") =>
                 Throwing(h2.trace[Len(h2.trace)])
            /\ ( /\ MarkAsReadFailed(h2) /\ h2.pc = "done"
                 /\ \A i \in 1..Len(h2.trace) : ~Throwing(h2.trace[i]) )
               => /\ h2.isFirstMessage => WelcomeReturned(h2)
                  /\ HasEffect(h2, "classifyMessage")
                  /\ \E i \in 1..Len(h2.trace) :
                       h2.trace[i].op = "updateClassification" /\ h2.trace[i].ok
                  /\ \E i \in 2..Len(h2.trace) :
                       /\ h2.trace[i].op = "send"
                       /\ h2.trace[i - 1] = Effect("simulateTyping", "reply", TRUE)
                  /\ \A i \in 1..Len(h2.trace) : ~IsApology(h2.trace[i])
    ]_vars

\* The read acknowledgement of a first message failed; the event went through
\* onboarding, classification and reply and no apology was sent.
C20_Witness ==
  \E e \in Events :
    /\ MarkAsReadFailed(handlers[e])
    /\ handlers[e].pc = "done"
    /\ handlers[e].isFirstMessage
    /\ WelcomeReturned(handlers[e])
    /\ ReplySent(handlers[e])
    /\ ~HasSend(handlers[e], ApologyText)

\* The place of an effect in the pipeline of one inbound text event.
StepRank(eff) ==
  IF eff.op = "createOrGetLead" THEN 1
  ELSE IF eff.op = "addMessage" /\ eff.arg = "lead" THEN 2
  ELSE IF eff.op = "markAsRead" THEN 3
  ELSE IF eff.op = "runWelcomeFlow" THEN 4
  ELSE IF eff.op \in {"sleep", "simulateTyping", "send"}
          /\ eff.arg \in {"greeting", "presentation", "expectations",
                           WelcomeFallbackText} THEN 5
  ELSE IF eff.op = "updateStatus" THEN 6
  ELSE IF eff.op = "classifyMessage" THEN 7
  ELSE IF eff.op = "updateClassification" THEN 8
  ELSE IF eff.op = "simulateTyping" /\ eff.arg = "reply" THEN 9
  ELSE IF eff.op = "addMessage" /\ eff.arg = "bot" THEN 11
  ELSE IF IsApology(eff) THEN 12
  ELSE IF eff.op = "send" /\ eff.arg = TextOnlyNotice THEN 0
  ELSE 10

\* The ranks that occur exactly once when the step runs.
SingleSteps == {1, 2, 3, 4, 6, 7, 8, 9, 10, 11}

\* C21: for every inbound text event the steps run in the order find-or-create
\* the Lead, append the inbound message, onboarding (when isFirstMessage) to
\* its end, classifier call, classification stored, reply sent, outbound
\* message appended; each step runs at most once, and a step runs only after
\* every step before it has finished.
C21_PipelineOrder ==
  \A e \in Events :
    LET h == handlers[e]
        n == Len(h.trace)
        rank == [i \in 1..n |-> StepRank(h.trace[i])]
        Ran(r) == \E i \in 1..n : rank[i] = r
    IN  Truthy(h.messageText) =>
          /\ \A i \in 1..(n - 1) :
               /\ rank[i] <= rank[i + 1]
               /\ rank[i] \in SingleSteps => rank[i] < rank[i + 1]
          /\ Ran(2) => Ran(1)
          /\ Ran(4) => Ran(2) /\ h.isFirstMessage
          /\ Ran(7) => /\ Ran(2)
                       /\ h.isFirstMessage => WelcomeReturned(h)
                       /\ ~h.isFirstMessage => ~Ran(4)
          /\ Ran(8) => Ran(7)
          /\ Ran(10) => Ran(8)
          /\ Ran(11) => Ran(10)

\* A first message went through all seven steps, onboarding included.
C21_Witness ==
  \E e \in Events :
    /\ handlers[e].pc = "done"
    /\ WelcomeReturned(handlers[e])
    /\ handlers[e].trace # <<>>
    /\ handlers[e].trace[Len(handlers[e].trace)] = Effect("addMessage", "bot", TRUE)
    /\ Len(WelcomeEffects(handlers[e])) = 9

\* C22: the message is marked as read as the last step of handling an inbound
\* text event, after the automatic reply has been sent.
C22_MarkAsReadAfterReply ==
  \A e \in Events :
    \A i \in 1..Len(handlers[e].trace) :
      handlers[e].trace[i].op = "markAsRead" =>
        \E j \in 2..(i - 1) :
          /\ handlers[e].trace[j].op = "send"
          /\ handlers[e].trace[j - 1] = Effect("simulateTyping", "reply", TRUE)

\* C23: the pipeline never sets a Lead's status to 'em_atendimento' or
\* 'finalizado': with inbound events alone, no Lead ever has one of them.
C23_PipelineWritesOnlyNovo ==
  \A i \in 1..Len(leads) :
    leads[i].status \notin {"em_atendimento", "finalizado"}

\* The pipeline has written a status: onboarding returned and line 130 ran.
C23_Witness ==
  \E e \in Events :
    /\ handlers[e].pc = "done"
    /\ \E i \in 1..Len(handlers[e].trace) :
         handlers[e].trace[i] = Effect("updateStatus", "novo", TRUE)
    /\ \E i \in 1..Len(leads) :
         /\ leads[i].phoneNumber = handlers[e].phoneNumber
         /\ leads[i].status = "novo"

\* C24: each Lead's intent, sentiment and priority are in their closed sets,
\* whatever triple of non-empty fields the classification backend returns.
C24_TripleInClosedSets ==
  \A i \in 1..Len(leads) :
    /\ leads[i].intent \in Intents
    /\ leads[i].sentiment \in Sentiments
    /\ leads[i].priority \in Priorities

\* Handler e has stored its classification on its Lead.
StoredClassification(e) ==
  \E i \in 1..Len(handlers[e].trace) :
    /\ handlers[e].trace[i].op = "updateClassification"
    /\ handlers[e].trace[i].ok

\* C25: a Lead's (intent, sentiment, priority) is the creation default or
\* exactly the triple one classifyMessage call returned, never a mix, also
\* with several events of one contact in flight.
C25_TripleFromOneCall ==
  \A i \in 1..Len(leads) :
    \/ LeadTriple(leads[i]) = LeadTriple(NewLeadRow(0, "", ""))
    \/ \E e \in Events :
         /\ handlers[e].phoneNumber = leads[i].phoneNumber
         /\ StoredClassification(e)
         /\ handlers[e].classification = LeadTriple(leads[i])

\* Two events of one contact stored two triples that differ in every field,
\* and the Lead holds one of them whole.
C25_Witness ==
  \E d, e \in Events, i \in 1..Len(leads) :
    /\ d # e
    /\ handlers[d].phoneNumber = leads[i].phoneNumber
    /\ handlers[e].phoneNumber = leads[i].phoneNumber
    /\ StoredClassification(d) /\ StoredClassification(e)
    /\ handlers[d].classification.intent # handlers[e].classification.intent
    /\ handlers[d].classification.sentiment # handlers[e].classification.sentiment
    /\ handlers[d].classification.priority # handlers[e].classification.priority
    /\ LeadTriple(leads[i]) = handlers[e].classification

\* Handler e appended its inbound message to the history.
AppendedInbound(e) ==
  \E i \in 1..Len(handlers[e].trace) :
    handlers[e].trace[i] = Effect("addMessage", "lead", TRUE)

\* C26: when the channel delivers the same inbound text event twice (the
\* same message key, id included), the history gains one copy of the
\* message and one automatic reply is sent.
C26_RedeliveryDeduplicated ==
  \A d, e \in Events :
    (d < e /\ handlers[e].pc # "idle" /\ handlers[e].key = handlers[d].key) =>
      /\ ~(AppendedInbound(d) /\ AppendedInbound(e))
      /\ ~(ReplySent(handlers[d]) /\ ReplySent(handlers[e]))

\* C27: formatPhoneNumber returns the digits of its argument, in order, with
\* '55' in front exactly when they do not start with '55' and are at most 11.
C27_FormatPhoneNumber ==
  lastCall.op = "formatPhoneNumber" =>
    LET digits == SelectSeq(lastCall.input, IsDigit)
        prepend == /\ ~(Len(digits) >= 2 /\ SubSeq(digits, 1, 2) = <<"5", "5">>)
                   /\ Len(digits) <= 11
    IN  /\ \A i \in 1..Len(lastCall.output) : IsDigit(lastCall.output[i])
        /\ prepend => lastCall.output = <<"5", "5">> \o digits
        /\ ~prepend => lastCall.output = digits

\* An address with a separator and exactly 11 digits got its prefix.
C27_Witness ==
  /\ lastCall.op = "formatPhoneNumber"
  /\ \E i \in 1..Len(lastCall.input) : ~IsDigit(lastCall.input[i])
  /\ Len(SelectSeq(lastCall.input, IsDigit)) = 11
  /\ lastCall.output = <<"5", "5">> \o SelectSeq(lastCall.input, IsDigit)

\* C28: the identifier under which handleMessage finds or creates the Lead
\* is formatPhoneNumber of the address part of the sender's JID (here for
\* addresses that are non-empty digit strings).
C28_LeadKeyedByCanonicalId ==
  ( /\ lastCall.op = "handleMessage"
    /\ lastCall.input # <<>>
    /\ \A i \in 1..Len(lastCall.input) : IsDigit(lastCall.input[i]) ) =>
    /\ handlers[1].phoneNumber = formatPhoneNumber(lastCall.input)
    /\ \E i \in 1..Len(leads) :
         leads[i].phoneNumber = formatPhoneNumber(lastCall.input)

\* C29: every handleMessage call that has started eventually finishes.
C29_EveryHandlerFinishes ==
  \A e \in Events : (handlers[e].pc # "idle") ~> (handlers[e].pc = "done")

\* A call finished after onboarding and a classifier request that failed or
\* timed out.
C29_Witness ==
  \E e \in Events :
    /\ handlers[e].pc = "done"
    /\ handlers[e].backend = "failed"
    /\ WelcomeReturned(handlers[e])

\* C30: after a close that is no logout, and until the connection is open
\* again, a reconnect is scheduled or an attempt is under way; after a
\* logout close none is scheduled.
C30_ReconnectsUntilOpen ==
  /\ ( /\ connection.closes > 0
       /\ shouldReconnect(connection.statusCode)
       /\ connection.state # "open" ) =>
       \/ connection.timer # NoTimer
       \/ connection.state = "connecting"
  /\ ( /\ connection.state = "close"
       /\ ~shouldReconnect(connection.statusCode) ) =>
       connection.timer = NoTimer

\* C31: GET /health is answered by getHealthCheck, with a body of only
\* status and timestamp, and GET /status by getStatus.
C31_HealthIsSimpleCheck ==
  lastCall.op = "http" /\ lastCall.input.method = "GET" =>
    /\ lastCall.input.path = <<"health">> =>
         /\ lastCall.arg = "getHealthCheck"
         /\ lastCall.output = {"status", "timestamp"}
    /\ lastCall.input.path = <<"status">> => lastCall.arg = "getStatus"

\* C32: no step of the message pipeline changes a status that is
\* 'em_atendimento' or 'finalizado' (only a status-update request does).
C32_OperatorStatusKept ==
  [][ncalls' = ncalls =>
       \A i \in DOMAIN leads :
         leads[i].status \in {"em_atendimento", "finalizado"} =>
           leads'[i].status = leads[i].status]_vars

C34_BotMessageOnlyAfterSentReply ==
  \A e \in Events :
    LET trace == handlers[e].trace
    IN  \A i \in 1..Len(trace) :
          trace[i] = Effect("addMessage", "bot", TRUE) =>
            /\ i > 1
            /\ trace[i - 1].op = "send"
            /\ trace[i - 1].ok

\* The store with the rows of one contact only.
OwnRows(db, phoneNumber) ==
  [db EXCEPT !.leads = LeadRows(db, phoneNumber),
             !.messages = MessageRows(db, phoneNumber)]

\* C35: a step of the handler of an event of contact X leaves the leads row
\* and the messages of every other contact as they were, and what the
\* handler does on arrival is what it would do on X's rows alone.
C35_HandlingTouchesOwnRowsOnly ==
  [][\A e \in Events :
       handlers'[e] # handlers[e] =>
         LET X == handlers'[e].phoneNumber
         IN  /\ \A p \in Phones \ {X} :
                  /\ LeadRows(DB', p) = LeadRows(DB, p)
                  /\ MessageRows(DB', p) = MessageRows(DB, p)
             /\ handlers[e].pc = "idle" =>
                  \E m \in InboundMessages(e) \cup Redelivered(e) :
                    handlers'[e] =
                      Entry([handlers[e] EXCEPT !.prior = handlers'[e].prior],
                            m, OwnRows(DB, X)).h]_vars

\* C36: while the process runs, isConnected() is true exactly when the
\* WhatsApp connection is open.
C36_IsConnectedIffOpen ==
  connection.process = "running" =>
    (isConnected(connection) <=> connection.state = "open")

\* C39: when startServer fails, the graceful shutdown runs and the process
\* exits with code 1.
C39_StartFailureExitsWithOne ==
  connection.shutdown = "Erro na inicialização" =>
    /\ connection.process = "exited"
    /\ connection.exitCode = 1

\* C37: a handler runs only for an upsert event of type 'notify', and the
\* handler of a message has not started while the handler of a message
\* before it in the array has not finished.
C37_NotifyOnlyAndInOrder ==
  \A e \in Events :
    handlers[e].pc # "idle" =>
      /\ lastCall.op = "messages.upsert"
      /\ lastCall.arg = "notify"
      /\ \A d \in Events : d < e => handlers[d].pc = "done"

\* The second message is being handled, after the handler of the first one
\* went through its awaits and sent its reply.
C37_Witness ==
  /\ handlers[1].pc = "done"
  /\ ReplySent(handlers[1])
  /\ handlers[2].pc \notin {"idle", "done"}

\* C38: a message whose remoteJid does not end with '@s.whatsapp.net' (a
\* group's '@g.us' or any other address) is finished on arrival, with no
\* store write and no effect of the handler (no send).
C38_RoutedAway ==
  [][\A e \in Events :
       ( /\ handlers[e].pc = "idle"
         /\ handlers'[e].pc # "idle"
         /\ handlers'[e].key.remoteJid.server # "s.whatsapp.net" ) =>
           /\ handlers'[e].pc = "done"
           /\ handlers'[e].trace = <<>>
           /\ leads' = leads
           /\ messages' = messages]_vars

\* A group message and a message from another kind of address have arrived,
\* the second on a store that holds nothing of either.
C38_Witness ==
  \E d, e \in Events :
    /\ handlers[d].key.remoteJid = GroupJid
    /\ handlers[e].key.remoteJid = OtherJid
    /\ handlers[d].pc = "done"
    /\ handlers[e].pc = "done"

\* C40: formatPhoneNumber applied to its own result returns that result.
C40_FormatPhoneNumberIdempotent ==
  lastCall.op = "formatPhoneNumber twice" => lastCall.output = lastCall.arg

\* The first call removed a separator and put '55' in front, the second
\* call changed nothing.
C40_Witness ==
  /\ lastCall.op = "formatPhoneNumber twice"
  /\ \E i \in 1..Len(lastCall.input) : ~IsDigit(lastCall.input[i])
  /\ lastCall.arg = <<"5", "5">> \o SelectSeq(lastCall.input, IsDigit)
  /\ lastCall.output = lastCall.arg

====
